---- MODULE Spec2Model ----
(***************************************************************************)
(* A model of drain_parse.py: the template/line aligner                    *)
(* (extract_parameters), the per-cluster parameter collection              *)
(* (get_parameters_by_cluster), the snapshot store (save_snapshot,         *)
(* load_snapshot) and the command (main).                                  *)
(*                                                                         *)
(* Python strings are sequences of one-character strings, so that          *)
(* str.split and re.split are computed character by character.            *)
(***************************************************************************)
EXTENDS Naturals, Integers, Sequences, FiniteSets, TLC

VARIABLES
  \* ---- extract_parameters (SpecAlign) ----
  t_struct,        \* the template the caller built: tokens, each a sequence of segments
  l_struct,        \* the masked line the masker built: tokens, each a sequence of segments
  template,        \* argument `template` (characters)
  masked_line,     \* argument `masked_line` (characters)
  parameters0,     \* argument `parameters` as passed in
  parameters,      \* the same dict, mutated in place by pop(0)
  template_tokens, \* local template_tokens
  log_tokens,      \* local log_tokens
  idx,             \* position of the zip() iteration, 1-based
  new_parameters,  \* local new_parameters
  pc,              \* "call", "loop", "returned", "raised"
  ret,             \* the returned list
  \* ---- get_parameters_by_cluster and the report of main (SpecCluster) ----
  log_lines,       \* argument `log_lines`: the snapshot's retained lines
  template_miner,  \* argument `template_miner`
  line_no,         \* position of the for loop of line 138, 1-based
  parameters_by_cluster, \* local parameters_by_cluster
  warnings,        \* the lines logging.warning was called for (line 154)
  cluster_id,      \* the requested cluster id
  printed,         \* what main prints for the request (lines 430-451)
  cpc,             \* "idle", "lines", "collected", "printed"
  \* ---- the snapshot store (SpecSnapshot, Spec) ----
  wksp,            \* files/last_template_snapshot.json in the gptscript workspace
  local,           \* cache/last_template_snapshot.json on the local disk
  cache_dir,       \* whether the directory cache/ exists
  ops,             \* the client's last two snapshot operations, oldest first
  saved,           \* the snapshot the last save_snapshot returned
  loaded,          \* the snapshot the last load_snapshot returned
  \* ---- the command (Spec) ----
  cached_log,      \* the downloaded log file in cache/
  run              \* the last run of main: its arguments and what it did

avars == <<t_struct, l_struct, template, masked_line, parameters0, parameters,
           template_tokens, log_tokens, idx, new_parameters, pc, ret>>

cvars == <<log_lines, template_miner, line_no, parameters_by_cluster, warnings,
           cluster_id, printed, cpc>>

svars == <<wksp, local, cache_dir, ops, saved, loaded>>

mvars == <<cached_log, run>>

vars == <<avars, cvars, svars, mvars>>

----------------------------------------------------------------------------
\* Bounds of the model

\* most whitespace-delimited tokens in a template or masked line
MaxTokens == 2

----------------------------------------------------------------------------
\* Characters and strings

None == "None"

Str1(a) == <<a>>
Str3(a, b, c) == <<a, b, c>>

\* the generic wildcard marker "<*>" (line 97)
WILDCARD == Str3("<", "*", ">")
\* two typed placeholder markers, as the masker writes them
PATH == Str3("<", "P", ">")
DIGITS == Str3("<", "D", ">")

RECURSIVE Concat(_)
\* "".join(parts)
Concat(parts) ==
  IF parts = <<>> THEN <<>> ELSE Head(parts) \o Concat(Tail(parts))

RECURSIVE Join(_, _)
\* sep.join(parts)
Join(parts, sep) ==
  IF parts = <<>> THEN <<>>
  ELSE IF Len(parts) = 1 THEN parts[1]
  ELSE parts[1] \o sep \o Join(Tail(parts), sep)

RECURSIVE SplitFrom(_, _, _)
SplitFrom(s, cur, acc) ==
  IF s = <<>> THEN (IF cur = <<>> THEN acc ELSE Append(acc, cur))
  ELSE IF Head(s) = " "
       THEN SplitFrom(Tail(s), <<>>, IF cur = <<>> THEN acc ELSE Append(acc, cur))
       ELSE SplitFrom(Tail(s), Append(cur, Head(s)), acc)

\* str.split() with no argument: split on runs of whitespace, no empty strings
split(s) == SplitFrom(s, <<>>, <<>>)

\* index of the first c in s at or after position from, 0 when there is none
FirstIdx(s, c, from) ==
  IF \E k \in from..Len(s) : s[k] = c
  THEN CHOOSE k \in from..Len(s) : s[k] = c /\ \A m \in from..(k - 1) : s[m] # c
  ELSE 0

\* no split at the placeholder markers
get_tokens_nosplit(s) == IF s = <<>> THEN <<>> ELSE <<s>>

RECURSIVE get_tokens(_)
\* re.split(r"(<[^>]*>)", s) without the empty strings: the leftmost "<" that
\* has a ">" after it starts a match that ends at the first ">" after it.
get_tokens(s) ==
  IF s = <<>> THEN <<>>
  ELSE LET i == FirstIdx(s, "<", 1)
           j == IF i = 0 THEN 0 ELSE FirstIdx(s, ">", i + 1)
       IN IF j = 0 THEN <<s>>
          ELSE (IF i > 1 THEN <<SubSeq(s, 1, i - 1)>> ELSE <<>>)
               \o <<SubSeq(s, i, j)>>
               \o get_tokens(SubSeq(s, j + 1, Len(s)))

\* token.startswith("<") and token.endswith(">") (line 115)
IsBracketed(token) ==
  /\ Len(token) >= 1
  /\ token[1] = "<"
  /\ token[Len(token)] = ">"

----------------------------------------------------------------------------
\* extract_parameters

\* Variants of the definitions below, each changed the way a slip in the code
\* would change it; the claims are checked to fail under them.

\* pop() instead of pop(0): the last value of the queue
PopValue_Last(params, key) == params[key][Len(params[key])]
\* parameters[key][0] without removing it
PopRest_Keep(params, key) == params

\* parameters[key].pop(0): KeyError on a missing key, IndexError on an empty list
CanPop(params, key) == key \in DOMAIN params /\ params[key] # <<>>
PopValue(params, key) == Head(params[key])

PopRest(params, key) == [params EXCEPT ![key] = Tail(params[key])]

RECURSIVE WildcardRuns(_, _, _)
\* lines 102-107: the loop over split_log_tokens
WildcardRuns(runs, res_full_string, params) ==
  IF runs = <<>>
  THEN [raised |-> FALSE, value |-> res_full_string, parameters |-> params]
  ELSE LET each_token == Head(runs)
       IN IF each_token \in DOMAIN params
          THEN IF params[each_token] = <<>>
               THEN [raised |-> TRUE, value |-> res_full_string, parameters |-> params]
               ELSE WildcardRuns(Tail(runs),
                                 res_full_string \o PopValue(params, each_token),
                                 PopRest(params, each_token))
          ELSE WildcardRuns(Tail(runs), res_full_string \o each_token, params)

\* lines 99-108: the template token is "<*>"
wildcard_token(log_token, params) ==
  LET r == WildcardRuns(get_tokens(log_token), <<>>, params)
  IN [raised |-> r.raised,
      occ |-> IF r.raised THEN <<>>
              ELSE <<[token |-> WILDCARD, value |-> r.value]>>,
      parameters |-> r.parameters]

RECURSIVE TypedRuns(_, _, _)
\* lines 114-117: the loop over the template token's parts
TypedRuns(tokens, occ, params) ==
  IF tokens = <<>>
  THEN [raised |-> FALSE, occ |-> occ, parameters |-> params]
  ELSE LET token == Head(tokens)
       IN IF IsBracketed(token)
          THEN IF CanPop(params, token)
               THEN TypedRuns(Tail(tokens),
                              Append(occ, [token |-> token,
                                           value |-> PopValue(params, token)]),
                              PopRest(params, token))
               ELSE [raised |-> TRUE, occ |-> occ, parameters |-> params]
          ELSE TypedRuns(Tail(tokens), occ, params)

\* the values of a fused template token concatenated into one occurrence
typed_token_concat(template_token, params) ==
  LET r == TypedRuns(get_tokens(template_token), <<>>, params)
  IN [raised |-> r.raised,
      occ |-> IF r.occ = <<>> THEN <<>>
              ELSE <<[token |-> template_token,
                      value |-> Concat([k \in 1..Len(r.occ) |-> r.occ[k].value])]>>,
      parameters |-> r.parameters]

\* lines 110-117: the template token is not "<*>"
typed_token(template_token, params) ==
  TypedRuns(get_tokens(template_token), <<>>, params)

\* lines 95-117: one iteration of the zip() loop
loop_body(template_token, log_token, params) ==
  IF template_token = WILDCARD
  THEN wildcard_token(log_token, params)
  ELSE typed_token(template_token, params)

RECURSIVE ZipLoop(_, _, _, _)
ZipLoop(ttoks, ltoks, acc, params) ==
  IF ttoks = <<>> \/ ltoks = <<>>
  THEN [raised |-> FALSE, ret |-> acc, parameters |-> params]
  ELSE LET r == loop_body(Head(ttoks), Head(ltoks), params)
       IN IF r.raised
          THEN [raised |-> TRUE, ret |-> <<>>, parameters |-> r.parameters]
          ELSE ZipLoop(Tail(ttoks), Tail(ltoks), acc \o r.occ, r.parameters)

\* no length check: zip() truncates to the shorter list
CountsDiffer_Never(ttoks, ltoks) == FALSE

\* line 90: the token counts differ
CountsDiffer(ttoks, ltoks) == Len(ttoks) # Len(ltoks)

\* lines 86-119 as one call
extract_parameters(tmpl, line, params) ==
  LET ttoks == split(tmpl)
      ltoks == split(line)
  IN IF CountsDiffer(ttoks, ltoks)
     THEN [raised |-> FALSE, ret |-> <<>>, parameters |-> params]
     ELSE ZipLoop(ttoks, ltoks, <<>>, params)

----------------------------------------------------------------------------
\* Inputs of extract_parameters: what the masker and the template store hand over

\* a token is a sequence of segments: literal text or a placeholder marker
Lit(t) == [kind |-> "lit", text |-> t]
Ph(m) == [kind |-> "ph", text |-> m]

Classes == {PATH, DIGITS}

\* tokens a masked line is made of: a, <P>, a<P>, <P><D>, and <x>, bracketed
\* text of the raw line that no masking pattern recognised
LineTokenPool ==
  { <<Lit(Str1("a"))>>,
    <<Ph(PATH)>>,
    <<Lit(Str1("a")), Ph(PATH)>>,
    <<Ph(PATH), Ph(DIGITS)>>,
    <<Lit(Str3("<", "x", ">"))>> }

\* tokens a template is made of: the line's tokens and the wildcard <*>
TemplateTokenPool == LineTokenPool \cup { <<Ph(WILDCARD)>> }

TokSeqs(pool) == UNION { [1..k -> pool] : k \in 0..MaxTokens }

RECURSIVE RenderToken(_)
RenderToken(tok) ==
  IF tok = <<>> THEN <<>> ELSE Head(tok).text \o RenderToken(Tail(tok))

RenderTokens(toks) == [k \in 1..Len(toks) |-> RenderToken(toks[k])]

\* drain3's get_template(): the tokens joined by one space
RenderTemplate(toks) == Join(RenderTokens(toks), Str1(" "))
\* a masked line keeps the raw line's whitespace: here two spaces between tokens
RenderLine(toks) == Join(RenderTokens(toks), <<" ", " ">>)

RECURSIVE Flatten(_)
\* the segments of all tokens, left to right
Flatten(toks) == IF toks = <<>> THEN <<>> ELSE Head(toks) \o Flatten(Tail(toks))

RECURSIVE CountPh(_, _)
\* how many segments of segs are the placeholder marker c
CountPh(segs, c) ==
  IF segs = <<>> THEN 0
  ELSE (IF Head(segs).kind = "ph" /\ Head(segs).text = c THEN 1 ELSE 0)
       + CountPh(Tail(segs), c)

DigitChar == <<"1", "2", "3", "4", "5", "6", "7", "8", "9">>

\* the k-th substring the masker removed for class c
ValueOf(c, k) == <<c[2], DigitChar[k]>>
Queue(c, n) == [k \in 1..n |-> ValueOf(c, k)]

\* the catalogue the masker records for a line: per class, the removed values in order
CatalogueOf(toks) ==
  [c \in {c \in Classes : CountPh(Flatten(toks), c) > 0}
     |-> Queue(c, CountPh(Flatten(toks), c))]

\* the same with a key (and an empty list) for every class
CatalogueAllKeys(toks) == [c \in Classes |-> Queue(c, CountPh(Flatten(toks), c))]

\* catalogues extract_parameters may be called with for a line
Catalogues(toks) ==
  { CatalogueOf(toks),
    CatalogueAllKeys(toks),
    \* no DIGITS class recorded
    [c \in (DOMAIN CatalogueOf(toks)) \ {DIGITS} |-> CatalogueOf(toks)[c]],
    \* one value more than the line has PATH markers
    [c \in Classes |-> Queue(c, CountPh(Flatten(toks), c) + (IF c = PATH THEN 1 ELSE 0))] }

----------------------------------------------------------------------------
\* SpecAlign: one call of extract_parameters, iteration by iteration

\* no collection in progress
ClusterIdle ==
  /\ log_lines = <<>>
  /\ template_miner = None
  /\ line_no = 0
  /\ parameters_by_cluster = <<>>
  /\ warnings = <<>>
  /\ cluster_id = None
  /\ printed = None
  /\ cpc = "idle"

\* a file that does not exist
NoFile == [exists |-> FALSE, content |-> <<>>]
File(content) == [exists |-> TRUE, content |-> content]

\* no snapshot
NoSnapshot == [clusters |-> <<>>, log_lines |-> <<>>]

\* nothing stored, no snapshot operation done
StoreIdle ==
  /\ wksp = NoFile
  /\ local = NoFile
  /\ cache_dir = FALSE
  /\ ops = <<>>
  /\ saved = NoSnapshot
  /\ loaded = NoSnapshot

\* the command was not run
MainIdle ==
  /\ cached_log = NoFile
  /\ run = <<>>

AlignInit ==
  /\ ClusterIdle
  /\ StoreIdle
  /\ MainIdle
  /\ t_struct \in TokSeqs(TemplateTokenPool)
  /\ l_struct \in TokSeqs(LineTokenPool)
  /\ template = RenderTemplate(t_struct)
  /\ masked_line = RenderLine(l_struct)
  /\ parameters0 \in Catalogues(l_struct)
  /\ parameters = parameters0
  /\ template_tokens = <<>>
  /\ log_tokens = <<>>
  /\ idx = 0
  /\ new_parameters = <<>>
  /\ pc = "call"
  /\ ret = None

\* lines 87-91: the token counts differ
EnterMismatch ==
  /\ pc = "call"
  /\ CountsDiffer(split(template), split(masked_line))
  /\ template_tokens' = split(template)
  /\ log_tokens' = split(masked_line)
  /\ ret' = extract_parameters(template, masked_line, parameters).ret
  /\ pc' = "returned"
  /\ UNCHANGED <<t_struct, l_struct, template, masked_line, parameters0,
                 parameters, idx, new_parameters>>
  /\ UNCHANGED <<cvars, svars, mvars>>

\* lines 87-94: the token counts agree
EnterLoop ==
  /\ pc = "call"
  /\ ~CountsDiffer(split(template), split(masked_line))
  /\ template_tokens' = split(template)
  /\ log_tokens' = split(masked_line)
  /\ new_parameters' = <<>>
  /\ idx' = 1
  /\ pc' = "loop"
  /\ UNCHANGED <<t_struct, l_struct, template, masked_line, parameters0,
                 parameters, ret>>
  /\ UNCHANGED <<cvars, svars, mvars>>

\* zip() stops at the shorter of the two lists
ZipLen(ttoks, ltoks) == IF Len(ttoks) <= Len(ltoks) THEN Len(ttoks) ELSE Len(ltoks)

\* the effect of one iteration on the state
Iterate(r) ==
  /\ parameters' = r.parameters
  /\ IF r.raised
     THEN /\ pc' = "raised"
          /\ UNCHANGED <<new_parameters, idx>>
     ELSE /\ new_parameters' = new_parameters \o r.occ
          /\ idx' = idx + 1
          /\ pc' = "loop"
  /\ UNCHANGED <<t_struct, l_struct, template, masked_line, parameters0,
                 template_tokens, log_tokens, ret>>
  /\ UNCHANGED <<cvars, svars, mvars>>

\* lines 96-108
LoopWildcard ==
  /\ pc = "loop"
  /\ idx <= ZipLen(template_tokens, log_tokens)
  /\ template_tokens[idx] = WILDCARD
  /\ Iterate(loop_body(template_tokens[idx], log_tokens[idx], parameters))

\* lines 110-117
LoopTyped ==
  /\ pc = "loop"
  /\ idx <= ZipLen(template_tokens, log_tokens)
  /\ template_tokens[idx] # WILDCARD
  /\ Iterate(loop_body(template_tokens[idx], log_tokens[idx], parameters))

\* line 119
Return ==
  /\ pc = "loop"
  /\ idx > ZipLen(template_tokens, log_tokens)
  /\ ret' = new_parameters
  /\ pc' = "returned"
  /\ UNCHANGED <<t_struct, l_struct, template, masked_line, parameters0,
                 parameters, template_tokens, log_tokens, idx, new_parameters>>
  /\ UNCHANGED <<cvars, svars, mvars>>

AlignNext == EnterMismatch \/ EnterLoop \/ LoopWildcard \/ LoopTyped \/ Return

SpecAlign == AlignInit /\ [][AlignNext]_vars

----------------------------------------------------------------------------
\* What the aligner is expected to produce, stated on the segments the
\* template and the line were built from, with queue indices instead of pops

\* the placeholder markers of a token, left to right
RECURSIVE MarkersOf(_)
MarkersOf(tok) ==
  IF tok = <<>> THEN <<>>
  ELSE (IF Head(tok).kind = "ph" THEN <<Head(tok).text>> ELSE <<>>)
       \o MarkersOf(Tail(tok))

\* how many of the first n entries of the marker list ms are the marker c
RECURSIVE CountIn(_, _, _)
CountIn(ms, n, c) ==
  IF n = 0 THEN 0
  ELSE CountIn(ms, n - 1, c) + (IF ms[n] = c THEN 1 ELSE 0)

\* every key of the queues q has a value for each of its markers in the token
EnoughFor(tok, q) ==
  \A c \in DOMAIN q : Len(q[c]) >= CountPh(tok, c)

\* every marker of the token is a key of q with a value for each of its uses
AllQueued(tok, q) ==
  /\ \A k \in 1..Len(MarkersOf(tok)) : MarkersOf(tok)[k] \in DOMAIN q
  /\ EnoughFor(tok, q)

\* one occurrence per marker of a typed template token, the j-th use of a
\* class taking the j-th value of the class's queue q
TypedOccurrences(tok, q) ==
  LET ms == MarkersOf(tok)
  IN [k \in 1..Len(ms) |->
        [token |-> ms[k], value |-> q[ms[k]][CountIn(ms, k, ms[k])]]]

\* the text of the first n segments of a line token, each marker that is a class
\* of q replaced by the value of q it stands for, everything else verbatim
RECURSIVE Reconstructed(_, _, _)
Reconstructed(tok, n, q) ==
  IF n = 0 THEN <<>>
  ELSE LET seg == tok[n]
       IN Reconstructed(tok, n - 1, q)
          \o (IF seg.kind = "ph" /\ seg.text \in DOMAIN q
              THEN q[seg.text][CountPh(SubSeq(tok, 1, n), seg.text)]
              ELSE seg.text)

\* the mismatch signal of line 91
MismatchSignal == <<>>

\* the whitespace-delimited token counts of the template and the line differ
TokenCountsDiffer == Len(t_struct) # Len(l_struct)

\* C2 (as amended): when the token counts differ the call returns at once with
\* the empty list: it never enters the loop, never raises, emits no occurrence
\* and pops nothing from the catalogue.
C2_MismatchHardStop ==
  TokenCountsDiffer =>
    /\ pc \in {"call", "returned"}
    /\ new_parameters = <<>>
    /\ parameters = parameters0
    /\ (pc = "returned" => ret = MismatchSignal)

C2_Witness ==
  /\ pc = "returned"
  /\ Len(t_struct) = 1
  /\ Len(l_struct) = 2
  /\ t_struct[1] = <<Ph(PATH)>>
  /\ PATH \in DOMAIN parameters0
  /\ Len(parameters0[PATH]) = 2

\* C2 (as claimed): the above, and the result of a mismatch is never the result
\* of a successful alignment.
C2_MismatchDistinct ==
  /\ C2_MismatchHardStop
  /\ (pc = "returned" /\ ~TokenCountsDiffer => ret # MismatchSignal)

\* C4: an iteration on a template token that is not "<*>", whose markers all
\* have values queued, appends exactly one occurrence per marker of the token,
\* in order, each with its marker and the next value of that marker's queue,
\* and removes those values from the front of the queues.
C4_TypedTokenOccurrences ==
  [][ ( /\ pc = "loop"
        /\ idx <= Len(t_struct)
        /\ idx <= Len(l_struct)
        /\ t_struct[idx] # <<Ph(WILDCARD)>>
        /\ AllQueued(t_struct[idx], parameters)
        /\ idx' # idx )
      => /\ pc' = "loop"
         /\ new_parameters' =
              new_parameters \o TypedOccurrences(t_struct[idx], parameters)
         /\ Len(new_parameters') =
              Len(new_parameters) + Len(MarkersOf(t_struct[idx]))
         /\ \A c \in DOMAIN parameters :
              parameters'[c] =
                SubSeq(parameters[c], CountPh(t_struct[idx], c) + 1,
                       Len(parameters[c]))
    ]_avars

C4_Witness ==
  /\ pc = "loop"
  /\ idx = 2
  /\ t_struct[1] = <<Ph(PATH), Ph(DIGITS)>>
  /\ Len(new_parameters) = 2
  /\ new_parameters[1].token = PATH
  /\ new_parameters[2].token = DIGITS

\* C5: an iteration on the template token "<*>", when every class of the
\* catalogue has a value for each of its markers in the line token, appends
\* exactly one occurrence, with token "<*>" and the line token's text with each
\* such marker replaced by the next value of its class.
C5_WildcardOccurrence ==
  [][ ( /\ pc = "loop"
        /\ idx <= Len(t_struct)
        /\ idx <= Len(l_struct)
        /\ t_struct[idx] = <<Ph(WILDCARD)>>
        /\ EnoughFor(l_struct[idx], parameters)
        /\ idx' # idx )
      => /\ pc' = "loop"
         /\ new_parameters' =
              Append(new_parameters,
                     [token |-> WILDCARD,
                      value |-> Reconstructed(l_struct[idx], Len(l_struct[idx]),
                                              parameters)])
         /\ \A c \in DOMAIN parameters :
              parameters'[c] =
                SubSeq(parameters[c], CountPh(l_struct[idx], c) + 1,
                       Len(parameters[c]))
    ]_avars

C5_Witness ==
  /\ pc = "loop"
  /\ idx = 2
  /\ t_struct[1] = <<Ph(WILDCARD)>>
  /\ l_struct[1] = <<Lit(Str1("a")), Ph(PATH)>>
  /\ new_parameters = <<[token |-> WILDCARD, value |-> <<"a", "P", "1">>]>>

\* the template is the line's own tokens, some of them replaced by "<*>"
TemplateOfLine ==
  /\ Len(t_struct) = Len(l_struct)
  /\ \A i \in 1..Len(t_struct) :
       t_struct[i] = l_struct[i] \/ t_struct[i] = <<Ph(WILDCARD)>>

\* how many markers of class c the line l has up to segment j of token i
OccIndex(l, i, j, c) ==
  CountPh(Flatten(SubSeq(l, 1, i - 1)), c) + CountPh(SubSeq(l[i], 1, j), c)

\* the catalogue has, for every marker of the line, a value at its index
ValuesRecorded ==
  \A c \in Classes :
    CountPh(Flatten(l_struct), c) > 0 =>
      c \in DOMAIN parameters0 /\ Len(parameters0[c]) >= CountPh(Flatten(l_struct), c)

\* the value the queues q recorded for segment j of token i of the line l
RecordedValue(l, q, i, j) == q[l[i][j].text][OccIndex(l, i, j, l[i][j].text)]

\* the raw text of the first n segments of token i of the line l
RECURSIVE RawText(_, _, _, _)
RawText(l, q, i, n) ==
  IF n = 0 THEN <<>>
  ELSE RawText(l, q, i, n - 1)
       \o (IF l[i][n].kind = "ph" THEN RecordedValue(l, q, i, n)
           ELSE l[i][n].text)

\* the occurrences of the first n segments of token i of the line l under a
\* typed template token
RECURSIVE BoundTyped(_, _, _, _)
BoundTyped(l, q, i, n) ==
  IF n = 0 THEN <<>>
  ELSE BoundTyped(l, q, i, n - 1)
       \o (IF l[i][n].kind = "ph"
           THEN <<[token |-> l[i][n].text, value |-> RecordedValue(l, q, i, n)]>>
           ELSE <<>>)

\* the occurrences of the first n tokens of the line l under the template t,
\* each marker bound to the value recorded for it
RECURSIVE BoundUpTo(_, _, _, _)
BoundUpTo(t, l, q, n) ==
  IF n = 0 THEN <<>>
  ELSE BoundUpTo(t, l, q, n - 1)
       \o (IF t[n] = <<Ph(WILDCARD)>>
           THEN <<[token |-> WILDCARD, value |-> RawText(l, q, n, Len(l[n]))]>>
           ELSE BoundTyped(l, q, n, Len(l[n])))

\* C3: for a template made of the line's tokens and a catalogue that recorded
\* the line's values, the returned occurrences are in token-position order and
\* the k-th marker of a class in the line is bound to the k-th value of that
\* class's queue, also when the class occurs several times.
C3_OccurrencesBoundInOrder ==
  (pc = "returned" /\ TemplateOfLine /\ ValuesRecorded)
    => ret = BoundUpTo(t_struct, l_struct, parameters0, Len(l_struct))

C3_Witness ==
  /\ pc = "returned"
  /\ TemplateOfLine
  /\ ValuesRecorded
  /\ Len(l_struct) = 2
  /\ l_struct[1] = <<Ph(PATH)>>
  /\ l_struct[2] = <<Lit(Str1("a")), Ph(PATH)>>
  /\ t_struct[2] = <<Ph(WILDCARD)>>
  /\ ret = <<[token |-> PATH, value |-> ValueOf(PATH, 1)],
             [token |-> WILDCARD, value |-> <<"a">> \o ValueOf(PATH, 2)]>>

\* every "<...>" fragment of the line is a placeholder marker of the catalogue
FragmentsAreMarkers ==
  \A i \in 1..Len(l_struct) : \A j \in 1..Len(l_struct[i]) :
    IF l_struct[i][j].kind = "ph"
    THEN l_struct[i][j].text \in DOMAIN parameters0
    ELSE \A k \in 1..Len(l_struct[i][j].text) : l_struct[i][j].text[k] # "<"

\* the catalogue holds exactly one value per marker of the line
CatalogueExact ==
  \A c \in DOMAIN parameters0 : Len(parameters0[c]) = CountPh(Flatten(l_struct), c)

\* C10: for a template made of the line's tokens, a line whose "<...>"
\* fragments are all markers and a catalogue with exactly the line's values,
\* no pop ever raises, the queues lose exactly the values of the tokens
\* processed so far, and on return every queue is empty.
C10_QueuesDrainedExactly ==
  (TemplateOfLine /\ FragmentsAreMarkers /\ CatalogueExact) =>
    /\ pc # "raised"
    /\ pc = "loop" =>
         \A c \in DOMAIN parameters0 :
           parameters[c] =
             SubSeq(parameters0[c],
                    CountPh(Flatten(SubSeq(l_struct, 1, idx - 1)), c) + 1,
                    Len(parameters0[c]))
    /\ pc = "returned" =>
         /\ \A c \in DOMAIN parameters : parameters[c] = <<>>
         /\ DOMAIN parameters = DOMAIN parameters0

C10_Witness ==
  /\ pc = "returned"
  /\ TemplateOfLine
  /\ FragmentsAreMarkers
  /\ CatalogueExact
  /\ l_struct = << <<Ph(PATH), Ph(DIGITS)>>, <<Ph(PATH)>> >>
  /\ t_struct[1] = <<Ph(WILDCARD)>>
  /\ t_struct[2] = <<Ph(PATH)>>
  /\ parameters0[PATH] = <<ValueOf(PATH, 1), ValueOf(PATH, 2)>>
  /\ parameters[PATH] = <<>>

----------------------------------------------------------------------------
\* The retained lines, the masker and the template store

\* most retained lines of a snapshot
MaxLines == 2

\* The tokens of six log lines as the masker splits them; the raw lines are
\* "a  P1", "aP1  P2", "a  a", "a  P1  a", "a  <x>" and "P1D1".
LinePathValue == << <<Lit(Str1("a"))>>, <<Ph(PATH)>> >>
LineFusedPath == << <<Lit(Str1("a")), Ph(PATH)>>, <<Ph(PATH)>> >>
LineNoValue == << <<Lit(Str1("a"))>>, <<Lit(Str1("a"))>> >>
LineThreeTokens == << <<Lit(Str1("a"))>>, <<Ph(PATH)>>, <<Lit(Str1("a"))>> >>
LineBracketText == << <<Lit(Str1("a"))>>, <<Lit(Str3("<", "x", ">"))>> >>
LineLost == << <<Ph(PATH), Ph(DIGITS)>> >>

\* A log line (l), the cluster the store put it in when it was ingested and
\* the cluster match() finds for it (0: no match).
LogLinePool ==
  { [l |-> LinePathValue, ingest |-> 1, match |-> 1],
    [l |-> LineFusedPath, ingest |-> 1, match |-> 1],
    \* a line without any variable part
    [l |-> LineNoValue, ingest |-> 2, match |-> 2],
    \* a store that matches a three-token line to the two-token template
    [l |-> LineThreeTokens, ingest |-> 1, match |-> 1],
    \* bracketed text no masking pattern recognised, kept by the template
    [l |-> LineBracketText, ingest |-> 3, match |-> 3],
    \* a line the store no longer matches to any cluster
    [l |-> LineLost, ingest |-> 4, match |-> 0] }

\* the templates of the store's clusters, by cluster id:
\* "<*> <P>", "a a", "a <x>", "<P><D>"
ClusterTemplates ==
  << << <<Ph(WILDCARD)>>, <<Ph(PATH)>> >>,
     << <<Lit(Str1("a"))>>, <<Lit(Str1("a"))>> >>,
     << <<Lit(Str1("a"))>>, <<Lit(Str3("<", "x", ">"))>> >>,
     << <<Ph(PATH), Ph(DIGITS)>> >> >>

\* the raw line the masker was given: every marker replaced by its value
RawLine(l) ==
  Join([i \in 1..Len(l) |-> RawText(l, CatalogueOf(l), i, Len(l[i]))], <<" ", " ">>)

RawLines == { RawLine(e.l) : e \in LogLinePool }

RECURSIVE rstrip(_)
\* str.rstrip()
rstrip(line) ==
  IF line # <<>> /\ line[Len(line)] = " "
  THEN rstrip(SubSeq(line, 1, Len(line) - 1))
  ELSE line

\* LogMasker.mask(line): the masked line and the catalogue of removed values
LogMasker_mask(line) ==
  LET e == CHOOSE e \in LogLinePool : RawLine(e.l) = line
  IN [masked_line |-> RenderLine(e.l), parameters |-> CatalogueOf(e.l)]

\* how many of the lines the store put in cluster c
RECURSIVE ClusterSize(_, _)
ClusterSize(lines, c) ==
  IF lines = <<>> THEN 0
  ELSE (IF (CHOOSE e \in LogLinePool : RawLine(e.l) = rstrip(Head(lines))).ingest = c
        THEN 1 ELSE 0)
       + ClusterSize(Tail(lines), c)

\* template_miner.drain.clusters after the lines were added, in creation order
RECURSIVE DrainClusters(_, _)
DrainClusters(lines, n) ==
  IF n = 0 THEN <<>>
  ELSE DrainClusters(lines, n - 1)
       \o (IF ClusterSize(lines, n) > 0
           THEN <<[cluster_id |-> n, size |-> ClusterSize(lines, n),
                   template |-> RenderTemplate(ClusterTemplates[n])]>>
           ELSE <<>>)

\* `not log_lines` (line 67)
EmptyLines_Never(lines) == FALSE

EmptyLines(lines) == lines = <<>>

\* lines 66-77: masked counts the lines handed to the masker and the store
parse_log_file(lines) ==
  IF EmptyLines(lines)
  THEN [raised |-> TRUE, template_miner |-> None, masked |-> 0]
  ELSE [raised |-> FALSE,
        template_miner |-> [clusters |-> DrainClusters(lines, Len(ClusterTemplates))],
        masked |-> Len(lines)]

\* the None that match() returns when no cluster matches
NoCluster == [cluster_id |-> 0, size |-> 0, template |-> <<>>]

\* template_miner.match(masked_line): a cluster of the miner, or None
TemplateMiner_match(tm, masked) ==
  LET e == CHOOSE e \in LogLinePool : RenderLine(e.l) = masked
  IN IF \E k \in 1..Len(tm.clusters) : tm.clusters[k].cluster_id = e.match
     THEN tm.clusters[CHOOSE k \in 1..Len(tm.clusters) :
                        tm.clusters[k].cluster_id = e.match]
     ELSE NoCluster

----------------------------------------------------------------------------
\* get_parameters_by_cluster

\* defaultdict(list): d[key].append(value)
AppendTo(d, key, value) ==
  IF key \in DOMAIN d
  THEN [d EXCEPT ![key] = Append(@, value)]
  ELSE [k \in DOMAIN d \cup {key} |-> IF k = key THEN <<value>> ELSE d[k]]

\* every aligned line is added, also with an empty list
NonEmpty_Always(params) == TRUE

\* `if params:` (line 149)
NonEmpty(params) == params # <<>>

\* lines 139-155: what one line is and does; kind is "unmatched", "raised",
\* "skipped" or "appended"
process_line(tm, line0, pbc, warns) ==
  LET line == rstrip(line0)
      m == LogMasker_mask(line)
      matched_cluster == TemplateMiner_match(tm, m.masked_line)
  IN IF matched_cluster = NoCluster
     THEN [kind |-> "unmatched", pbc |-> pbc, warnings |-> warns]
     ELSE LET r == extract_parameters(matched_cluster.template, m.masked_line,
                                      m.parameters)
          IN IF r.raised
             THEN [kind |-> "raised", pbc |-> pbc, warnings |-> Append(warns, line)]
             ELSE IF NonEmpty(r.ret)
             THEN [kind |-> "appended",
                   pbc |-> AppendTo(pbc, matched_cluster.cluster_id,
                                    [line |-> line, parameters |-> r.ret]),
                   warnings |-> warns]
             ELSE [kind |-> "skipped", pbc |-> pbc, warnings |-> warns]

RECURSIVE CollectFrom(_, _, _, _)
CollectFrom(tm, lines, pbc, warns) ==
  IF lines = <<>> THEN [pbc |-> pbc, warnings |-> warns]
  ELSE LET r == process_line(tm, Head(lines), pbc, warns)
       IN CollectFrom(tm, Tail(lines), r.pbc, r.warnings)

\* lines 134-157 as one call
get_parameters_by_cluster(tm, lines) == CollectFrom(tm, lines, <<>>, <<>>)

\* lines 430-451: what main prints for the requested cluster
print_parameters(cid, clusters, params) ==
  IF cid \notin DOMAIN params
  THEN [error |-> "No parameters found for cluster ID"]
  ELSE [cluster_id |-> cid,
        template |-> clusters[CHOOSE k \in 1..Len(clusters) :
                                clusters[k].id = cid].template,
        parameters |-> params[cid]]

\* lines 245-252: the snapshot's cluster list
SnapshotClusters(tm) ==
  [k \in 1..Len(tm.clusters) |->
     [id |-> tm.clusters[k].cluster_id, size |-> tm.clusters[k].size,
      template |-> tm.clusters[k].template]]

----------------------------------------------------------------------------
\* SpecCluster: the extract action after the snapshot was loaded and the
\* requested cluster found in it (lines 425-451), line by line

LineSeqs == UNION { [1..k -> RawLines] : k \in 1..MaxLines }

\* no alignment in progress
AlignIdle ==
  /\ t_struct = <<>>
  /\ l_struct = <<>>
  /\ template = <<>>
  /\ masked_line = <<>>
  /\ parameters0 = <<>>
  /\ parameters = <<>>
  /\ template_tokens = <<>>
  /\ log_tokens = <<>>
  /\ idx = 0
  /\ new_parameters = <<>>
  /\ pc = "idle"
  /\ ret = None

ClusterInit ==
  /\ AlignIdle
  /\ StoreIdle
  /\ MainIdle
  /\ log_lines \in LineSeqs
  /\ template_miner = parse_log_file(log_lines).template_miner
  /\ cluster_id \in { template_miner.clusters[k].cluster_id :
                        k \in 1..Len(template_miner.clusters) }
  /\ line_no = 1
  /\ parameters_by_cluster = <<>>
  /\ warnings = <<>>
  /\ printed = None
  /\ cpc = "lines"

\* the iteration of the loop of line 138 on the current line
CurrentLine ==
  process_line(template_miner, log_lines[line_no], parameters_by_cluster, warnings)

\* the effect of one iteration on the state
LineStep ==
  /\ parameters_by_cluster' = CurrentLine.pbc
  /\ warnings' = CurrentLine.warnings
  /\ line_no' = line_no + 1
  /\ UNCHANGED <<log_lines, template_miner, cluster_id, printed, cpc>>
  /\ UNCHANGED <<avars, svars, mvars>>

\* line 144: no cluster matched
LineUnmatched ==
  /\ cpc = "lines"
  /\ line_no <= Len(log_lines)
  /\ CurrentLine.kind = "unmatched"
  /\ LineStep

\* lines 153-155: the alignment raised
LineRaised ==
  /\ cpc = "lines"
  /\ line_no <= Len(log_lines)
  /\ CurrentLine.kind = "raised"
  /\ LineStep

\* line 149: the alignment returned an empty list
LineSkipped ==
  /\ cpc = "lines"
  /\ line_no <= Len(log_lines)
  /\ CurrentLine.kind = "skipped"
  /\ LineStep

\* lines 150-152
LineAppended ==
  /\ cpc = "lines"
  /\ line_no <= Len(log_lines)
  /\ CurrentLine.kind = "appended"
  /\ LineStep

\* line 157
Collected ==
  /\ cpc = "lines"
  /\ line_no > Len(log_lines)
  /\ cpc' = "collected"
  /\ UNCHANGED <<log_lines, template_miner, line_no, parameters_by_cluster,
                 warnings, cluster_id, printed>>
  /\ UNCHANGED <<avars, svars, mvars>>

\* lines 430-451
PrintParameters ==
  /\ cpc = "collected"
  /\ printed' = print_parameters(cluster_id, SnapshotClusters(template_miner),
                                 parameters_by_cluster)
  /\ cpc' = "printed"
  /\ UNCHANGED <<log_lines, template_miner, line_no, parameters_by_cluster,
                 warnings, cluster_id>>
  /\ UNCHANGED <<avars, svars, mvars>>

ClusterNext ==
  \/ LineUnmatched \/ LineRaised \/ LineSkipped \/ LineAppended
  \/ Collected \/ PrintParameters

SpecCluster == ClusterInit /\ [][ClusterNext]_vars

----------------------------------------------------------------------------
\* What the collection is expected to hold, stated on the segments of the
\* lines and of the templates

\* the pool entry of a retained line
EntryOf(line) == CHOOSE e \in LogLinePool : RawLine(e.l) = line

\* the line is matched to cluster c
MatchedTo(line, c) == EntryOf(line).match = c

\* the line has as many tokens as the template of the cluster it is matched to
CountsAgree(line) ==
  /\ EntryOf(line).match # 0
  /\ Len(ClusterTemplates[EntryOf(line).match]) = Len(EntryOf(line).l)

\* a typed token of the template holds bracketed text that is no class of the
\* line's catalogue, so that the pop of line 116 raises
AlignmentRaises(line) ==
  /\ CountsAgree(line)
  /\ LET t == ClusterTemplates[EntryOf(line).match]
     IN \E i \in 1..Len(t) : \E j \in 1..Len(t[i]) :
          /\ t[i] # <<Ph(WILDCARD)>>
          /\ t[i][j].text[1] = "<"
          /\ t[i][j].text \notin DOMAIN CatalogueOf(EntryOf(line).l)

\* the occurrences of the line under the template of its cluster
OccurrencesOf(line) ==
  LET e == EntryOf(line)
  IN BoundUpTo(ClusterTemplates[e.match], e.l, CatalogueOf(e.l), Len(e.l))

\* the line is matched to the requested cluster and can be aligned
Alignable(line) ==
  /\ MatchedTo(line, cluster_id)
  /\ CountsAgree(line)
  /\ ~AlignmentRaises(line)

AlignableWithOccurrences(line) ==
  Alignable(line) /\ OccurrencesOf(line) # <<>>

NotAlignable(line) == ~Alignable(line)

EntriesOf(lines) ==
  [k \in 1..Len(lines) |-> [line |-> lines[k], parameters |-> OccurrencesOf(lines[k])]]

\* the entries collected for the requested cluster
RequestEntries ==
  IF cluster_id \in DOMAIN parameters_by_cluster
  THEN parameters_by_cluster[cluster_id]
  ELSE <<>>

----------------------------------------------------------------------------
\* The snapshot store: save_snapshot and load_snapshot

\* the contents a log file can have: no line at all, or retained lines
LogFiles ==
  { <<RawLine(LinePathValue), RawLine(LineNoValue)>>,
    <<RawLine(LineFusedPath), RawLine(LineBracketText)>>,
    <<RawLine(LineLost)>> }

\* json.dumps(snapshot): the document as key/value pairs
json_dumps(snapshot) ==
  << <<"clusters",
       [k \in 1..Len(snapshot.clusters) |->
          << <<"id", snapshot.clusters[k].id>>,
             <<"size", snapshot.clusters[k].size>>,
             <<"template", snapshot.clusters[k].template>> >>]>>,
     <<"log_lines", snapshot.log_lines>> >>

\* json.loads(content): the dict of lists and dicts
json_loads(content) ==
  [clusters |-> [k \in 1..Len(content[1][2]) |->
                   [id |-> content[1][2][k][1][2],
                    size |-> content[1][2][k][2][2],
                    template |-> content[1][2][k][3][2]]],
   log_lines |-> content[2][2]]

\* lines 242-267; up: whether the workspace write succeeds
save_snapshot(tm, lines, up, w, l, dir) ==
  LET snapshot == [clusters |-> SnapshotClusters(tm), log_lines |-> lines]
  IN IF up
     THEN [raised |-> FALSE, snapshot |-> snapshot,
           wksp |-> File(json_dumps(snapshot)), local |-> l]
     ELSE IF dir
     THEN [raised |-> FALSE, snapshot |-> snapshot,
           wksp |-> w, local |-> File(json_dumps(snapshot))]
     \* open() of a file in a directory that does not exist
     ELSE [raised |-> TRUE, snapshot |-> NoSnapshot, wksp |-> w, local |-> l]

\* lines 277-293; up: whether the workspace can be read
load_snapshot(up, w, l) ==
  IF up /\ w.exists
  THEN [raised |-> FALSE, snapshot |-> json_loads(w.content)]
  ELSE IF ~l.exists
  THEN [raised |-> TRUE, snapshot |-> NoSnapshot]
  ELSE [raised |-> FALSE, snapshot |-> json_loads(l.content)]

----------------------------------------------------------------------------
\* SpecSnapshot: a client saving and loading snapshots

Push(history, op) ==
  IF Len(history) < 2 THEN Append(history, op) ELSE <<history[2], op>>

SnapshotInit ==
  /\ AlignIdle
  /\ ClusterIdle
  /\ MainIdle
  /\ wksp = NoFile
  /\ local = NoFile
  /\ cache_dir \in BOOLEAN
  /\ ops = <<>>
  /\ saved = NoSnapshot
  /\ loaded = NoSnapshot

\* save_snapshot with the given workspace availability
Save(lines, up) ==
  LET r == save_snapshot(parse_log_file(lines).template_miner, lines, up,
                         wksp, local, cache_dir)
  IN /\ wksp' = r.wksp
     /\ local' = r.local
     /\ saved' = r.snapshot
     /\ ops' = Push(ops, IF r.raised THEN "save_raised" ELSE "save")
     /\ UNCHANGED <<cache_dir, loaded>>
     /\ UNCHANGED <<avars, cvars, mvars>>

\* lines 258-260: the workspace takes the snapshot
SaveToWorkspace == \E lines \in LogFiles : Save(lines, TRUE)

\* lines 261-267: the workspace raises, the local file is written
SaveToLocal == \E lines \in LogFiles : cache_dir /\ Save(lines, FALSE)

\* lines 261-264: the workspace raises and cache/ does not exist
SaveRaises == \E lines \in LogFiles : ~cache_dir /\ Save(lines, FALSE)

\* load_snapshot with the given workspace availability
Load(up) ==
  LET r == load_snapshot(up, wksp, local)
  IN /\ loaded' = r.snapshot
     /\ ops' = Push(ops, IF r.raised THEN "load_raised" ELSE "load")
     /\ UNCHANGED <<wksp, local, cache_dir, saved>>
     /\ UNCHANGED <<avars, cvars, mvars>>

\* lines 280-282
LoadFromWorkspace == wksp.exists /\ Load(TRUE)

\* lines 283-293: the workspace raises, the local file exists
LoadFromLocal == local.exists /\ Load(FALSE)

\* lines 283-290: the workspace raises, no local file
LoadNotFound == ~local.exists /\ Load(FALSE)

SnapshotNext ==
  \/ SaveToWorkspace \/ SaveToLocal \/ SaveRaises
  \/ LoadFromWorkspace \/ LoadFromLocal \/ LoadNotFound

SpecSnapshot == SnapshotInit /\ [][SnapshotNext]_vars

\* C1: a load that immediately follows a save returns the snapshot just saved,
\* whichever backend served either call.
C1_LoadReturnsLastSaved ==
  (Len(ops) = 2 /\ ops[1] = "save" /\ ops[2] \in {"load", "load_raised"})
    => (ops[2] = "load" /\ loaded = saved)

----------------------------------------------------------------------------
\* main

\* what print() writes to standard output
Text(t) == [kind |-> "text", text |-> t, data |-> <<>>]
JsonError(t) == [kind |-> "json_error", text |-> t, data |-> <<>>]
JsonResult(d) == [kind |-> "json_result", text |-> "", data |-> d]

\* the CLUSTER_ID strings int() accepts (line 347); any other raises ValueError
NumericIds == {"0", "1", "2", "3", "4", "9"}

int(text) ==
  CASE text = "0" -> 0
    [] text = "1" -> 1
    [] text = "2" -> 2
    [] text = "3" -> 3
    [] text = "4" -> 4
    [] text = "9" -> 9

\* `if not cluster_id` (line 396) is false: the id is neither None nor 0
Truthy(cluster_id_text) ==
  cluster_id_text # "None" /\ int(cluster_id_text) # 0

RECURSIVE lstrip(_)
lstrip(line) ==
  IF line # <<>> /\ Head(line) = " " THEN lstrip(Tail(line)) ELSE line

\* lines 54-63: the stripped lines of the file
get_log_lines(content) == [k \in 1..Len(content) |-> rstrip(lstrip(content[k]))]

\* the verification is skipped
cluster_exists_Always(cid, snapshot) == TRUE

\* lines 411-413
cluster_exists(cid, snapshot) ==
  \E k \in 1..Len(snapshot.clusters) : snapshot.clusters[k].id = cid

\* the state of a run of main when it starts
Started(a, w, l, dir, cached) ==
  [action |-> a.action, cluster_id |-> a.cluster_id, source |-> a.source,
   content |-> a.content, download_ok |-> a.download_ok, up |-> a.up,
   stdout |-> <<>>, traceback |-> FALSE, exit_code |-> 0, outcome |-> "ok",
   wksp |-> w, local |-> l, cache_dir |-> dir, cached_log |-> cached,
   snapshot |-> NoSnapshot, loaded |-> FALSE, masked |-> 0,
   log_lines |-> <<>>, read |-> FALSE]

\* the value of an expression that is computed once
Only(values) == CHOOSE v \in values : TRUE

\* print(item) followed by sys.exit(code), or by the end of main when code is 0
Exit(r, outcome, item, code) ==
  [r EXCEPT !.stdout = Append(@, item), !.exit_code = code, !.outcome = outcome]

\* an exception no handler of main catches: a traceback on standard error
Uncaught(r) ==
  [r EXCEPT !.traceback = TRUE, !.exit_code = 1, !.outcome = "exception"]

\* lines 296-322 and 355-357: download the log file, or use the cached one
download(a, r) ==
  LET r1 == [r EXCEPT !.cache_dir = TRUE]
  IN IF r.cached_log.exists
     THEN [r1 EXCEPT !.stdout = Append(@, Text("Using cached file")),
                     !.log_lines = get_log_lines(r.cached_log.content),
                     !.read = TRUE]
     ELSE IF a.download_ok
     THEN [r1 EXCEPT !.stdout = @ \o <<Text("Downloading log file"),
                                       Text("Download complete")>>,
                     !.cached_log = File(a.content),
                     !.log_lines = get_log_lines(a.content),
                     !.read = TRUE]
     ELSE Uncaught([r1 EXCEPT !.stdout = Append(@, Text("Downloading log file"))])

\* lines 355-370: the log lines, from the URL, the workspace or the local file
acquire(a, r) ==
  IF a.source = "url" THEN download(a, r)
  ELSE IF a.source = "none"
  THEN Exit(r, "no_source",
            Text("Error: Either LOG_FILE or LOG_FILE_URL must be provided"), 1)
  ELSE IF a.source = "file_wksp"
  THEN [r EXCEPT !.log_lines = a.content, !.read = TRUE]
  ELSE IF a.source = "file_missing"
  THEN Exit(r, "file_not_found", Text("Error: Log file not found"), 1)
  ELSE IF a.source = "file_unreadable"
  THEN Uncaught(r)
  ELSE [r EXCEPT !.log_lines = get_log_lines(a.content), !.read = TRUE]

\* lines 378-393: the snapshot is saved and the clusters are printed
report(a, r, p, sv) ==
  IF sv.raised
  THEN Exit([r EXCEPT !.masked = p.masked], "exception",
            JsonError("No such file or directory"), 1)
  ELSE [r EXCEPT !.masked = p.masked,
                 !.wksp = sv.wksp,
                 !.local = sv.local,
                 !.stdout = Append(@, JsonResult(
                    [message |-> "Analysis complete",
                     clusters |-> sv.snapshot.clusters]))]

\* lines 374-393 with the handler of lines 464-466
analyze(a, r) ==
  Only({ IF p.raised
         THEN Exit([r EXCEPT !.masked = p.masked], "empty_input",
                   JsonError("Empty log lines provided"), 1)
         ELSE Only({ report(a, r, p, sv) :
                sv \in {save_snapshot(p.template_miner, r.log_lines, a.up,
                                      r.wksp, r.local, r.cache_dir)} })
         : p \in {parse_log_file(r.log_lines)} })

\* lines 430-451: the parameters of the requested cluster are printed
respond(cid, r, p, g) ==
  IF cid \notin DOMAIN g.pbc
  \* printed without sys.exit: main ends normally
  THEN Exit([r EXCEPT !.masked = p.masked + Len(r.snapshot.log_lines)],
            "no_parameters", JsonError("No parameters found for cluster ID"), 0)
  ELSE [r EXCEPT !.masked = p.masked + Len(r.snapshot.log_lines),
                 !.stdout = Append(@, JsonResult(
                    print_parameters(cid, r.snapshot.clusters, g.pbc)))]

\* lines 425-451
reprocess(cid, r) ==
  Only({ IF p.raised
         THEN Exit(r, "empty_input", JsonError("Empty log lines provided"), 1)
         ELSE Only({ respond(cid, r, p, g) :
                g \in {get_parameters_by_cluster(p.template_miner,
                                                 r.snapshot.log_lines)} })
         : p \in {parse_log_file(r.snapshot.log_lines)} })

\* lines 404-422: the snapshot is loaded and the cluster id is looked up in it
lookup(a, r, ld) ==
  IF ld.raised
  THEN Exit(r, "no_snapshot", JsonError("No analysis snapshot found"), 1)
  ELSE IF ~cluster_exists(int(a.cluster_id), ld.snapshot)
  THEN Exit([r EXCEPT !.snapshot = ld.snapshot, !.loaded = TRUE],
            "unknown_cluster",
            JsonError("Cluster ID not found in last template snapshot"), 1)
  ELSE Only({ reprocess(int(a.cluster_id), r1) :
         r1 \in {[r EXCEPT !.snapshot = ld.snapshot, !.loaded = TRUE]} })

\* lines 395-462 with the handler of lines 464-466
extract(a, r) ==
  IF ~Truthy(a.cluster_id)
  THEN Exit(r, "no_cluster_id", JsonError("Cluster ID is required"), 1)
  ELSE Only({ lookup(a, r, ld) : ld \in {load_snapshot(a.up, r.wksp, r.local)} })

\* lines 371-462: the action, once the log lines are read
dispatch(a, r) ==
  IF ~r.read THEN r
  ELSE IF a.action = "analyze" THEN analyze(a, r)
  ELSE extract(a, r)

\* lines 325-466
main(a, w, l, dir, cached) ==
  IF a.cluster_id # "None" /\ a.cluster_id \notin NumericIds
  THEN Uncaught(Started(a, w, l, dir, cached))
  ELSE IF a.action \notin {"analyze", "extract"}
  THEN Exit(Started(a, w, l, dir, cached), "invalid_action",
            Text("Error: ACTION must be either analyze or extract"), 1)
  ELSE Only({ dispatch(a, r) : r \in {acquire(a, Started(a, w, l, dir, cached))} })

----------------------------------------------------------------------------
\* Spec: runs of the command, one after the other

Args(action, cid, source, content, download_ok, up) ==
  [action |-> action, cluster_id |-> cid, source |-> source, content |-> content,
   download_ok |-> download_ok, up |-> up]

\* the contents of the log file of a run
MainFiles ==
  { <<>>,
    <<RawLine(LinePathValue), RawLine(LineNoValue)>>,
    <<RawLine(LineFusedPath), RawLine(LineBracketText)>> }

\* the log file behind the URL
UrlContents == { <<>>, <<RawLine(LinePathValue), RawLine(LineNoValue)>> }

\* ACTION=analyze with every input source
AnalyzeArgs ==
  { Args("analyze", "None", src, <<>>, FALSE, TRUE) :
      src \in {"none", "file_missing", "file_unreadable"} }
  \cup { Args("analyze", "None", "url", c, ok, TRUE) :
           c \in UrlContents, ok \in BOOLEAN }
  \cup { Args("analyze", "None", "file_local", c, FALSE, up) :
           c \in MainFiles, up \in BOOLEAN }
  \cup { Args("analyze", "None", "file_wksp", c, FALSE, TRUE) : c \in MainFiles }

\* ACTION=extract with every cluster id
ExtractArgs ==
  { Args("extract", cid, "file_local", <<>>, FALSE, up) :
      cid \in {"None", "0", "1", "2", "9"}, up \in BOOLEAN }
  \cup { Args("extract", "1", src, <<>>, TRUE, TRUE) :
           src \in {"none", "file_missing", "url"} }

\* no ACTION, an ACTION that is neither analyze nor extract, a CLUSTER_ID that
\* is no number
OtherArgs ==
  { Args("None", "None", "file_local", <<>>, FALSE, TRUE),
    Args("bogus", "1", "file_local", <<>>, FALSE, TRUE),
    Args("extract", "abc", "file_local", <<>>, FALSE, TRUE) }

NoRun == Started(Args("None", "None", "none", <<>>, FALSE, FALSE),
                 NoFile, NoFile, FALSE, NoFile)

Init ==
  /\ AlignIdle
  /\ ClusterIdle
  /\ wksp = NoFile
  /\ local = NoFile
  /\ cache_dir = FALSE
  /\ ops = <<>>
  /\ saved = NoSnapshot
  /\ loaded = NoSnapshot
  /\ cached_log = NoFile
  /\ run = [NoRun EXCEPT !.outcome = "none"]

\* one run of the command
Run(a) ==
  \E r \in {main(a, wksp, local, cache_dir, cached_log)} :
     /\ run' = r
     /\ wksp' = r.wksp
     /\ local' = r.local
     /\ cache_dir' = r.cache_dir
     /\ cached_log' = r.cached_log
     /\ UNCHANGED <<ops, saved, loaded>>
     /\ UNCHANGED <<avars, cvars>>

RunAnalyze == \E a \in AnalyzeArgs : a.action = "analyze" /\ Run(a)

RunExtract == \E a \in ExtractArgs : a.action = "extract" /\ Run(a)

RunOther ==
  \E a \in OtherArgs :
     /\ a.action \notin {"analyze", "extract"} \/ a.cluster_id \notin NumericIds
     /\ Run(a)

Next == RunAnalyze \/ RunExtract \/ RunOther

Spec == Init /\ [][Next]_vars

----------------------------------------------------------------------------
\* Properties of the command

\* a run of the command has ended
Ran == run.outcome # "none"

\* the run printed a result: the clusters, or the parameters of a cluster
PrintedResult == \E k \in 1..Len(run.stdout) : run.stdout[k].kind = "json_result"

\* the last thing the run printed
LastPrinted == run.stdout[Len(run.stdout)]

\* C6: every run that ends without a result prints exactly one JSON object
\* {"error": message} on standard output, raises nothing, and exits non-zero
C6_ErrorsAreJsonAndNonZero ==
  (Ran /\ ~PrintedResult)
    => /\ Len(run.stdout) = 1
       /\ run.stdout[1].kind = "json_error"
       /\ ~run.traceback
       /\ run.exit_code # 0

\* the ids of the clusters of a snapshot
SnapshotIds(snapshot) ==
  { snapshot.clusters[k].id : k \in 1..Len(snapshot.clusters) }

\* the run is an extract that loaded a snapshot and asks for an id absent from it
UnknownClusterRequested ==
  /\ run.action = "extract"
  /\ run.loaded
  /\ int(run.cluster_id) \notin SnapshotIds(run.snapshot)

\* C7: an extract for a cluster id that is not among the ids of the loaded
\* snapshot prints the "not found" error object and exits with status 1; it
\* prints no parameters result, raises no uncaught exception, and no line has
\* been masked or aligned
C7_UnknownClusterRejected ==
  UnknownClusterRequested
    => /\ LastPrinted = JsonError("Cluster ID not found in last template snapshot")
       /\ ~PrintedResult
       /\ ~run.traceback
       /\ run.exit_code = 1
       /\ run.masked = 0

\* C7 witness: cluster 9 is requested from a loaded snapshot that has clusters,
\* none of them 9
C7_Witness ==
  /\ UnknownClusterRequested
  /\ run.cluster_id = "9"
  /\ run.snapshot.clusters # <<>>
  /\ run.outcome = "unknown_cluster"

\* the log file the run `a` reads has no line, `cached` being the cached download
EmptySource(a, cached) ==
  \/ a.source \in {"file_wksp", "file_local"} /\ a.content = <<>>
  \/ /\ a.source = "url"
     /\ IF cached.exists THEN cached.content = <<>>
        ELSE a.download_ok /\ a.content = <<>>

\* C9: an analyze of an empty log file reports the error "Empty log lines
\* provided", exits non-zero, hands no line to the masker, and leaves the
\* snapshot files of the workspace and of the local cache as they were
C9_EmptyInputFailsFast ==
  [][ (run'.action = "analyze" /\ EmptySource(run', cached_log))
        => /\ run'.stdout # <<>>
           /\ run'.stdout[Len(run'.stdout)] = JsonError("Empty log lines provided")
           /\ run'.exit_code # 0
           /\ run'.masked = 0
           /\ wksp' = wksp
           /\ local' = local ]_vars

\* C9 witness: an analyze of an empty local log file has failed while the
\* workspace holds the snapshot of an earlier analyze
C9_Witness ==
  /\ run.action = "analyze"
  /\ run.source = "file_local"
  /\ run.content = <<>>
  /\ run.outcome = "empty_input"
  /\ wksp.exists

====
